---- MODULE Spec2Model ----
(***************************************************************************)
(* squashelf (src/squashelf.c): main() as a sequential state machine.      *)
(* One action per call site of libc / libelf in main(); `pc` is the        *)
(* position in main().  Every call that main() tests for failure has a     *)
(* failing outcome here.  libelf and libc are the environment: a failing   *)
(* libelf call records a non-zero elf_errno (read back by elf_errmsg(-1)   *)
(* and by elf_errno() at line 443), a failing system call or allocation    *)
(* sets errno; successful calls leave both alone.                          *)
(*                                                                         *)
(* uint64_t arithmetic is kept modular, with the 64-bit width scaled down  *)
(* to AddrBits bits (Mod = 2^AddrBits) so that wrap-around is reachable.   *)
(***************************************************************************)
EXTENDS Integers, Sequences, FiniteSets, TLC

\* ---------------------------------------------------------------- bounds
\* Largest number of entries in the input program-header table.
MaxPhdr == 2
\* Width of the (scaled-down) uint64_t fields.
AddrBits == 3
\* Largest number of failing calls / short reads injected into one run.
MaxFaults == 1

Mod == 2 ^ AddrBits

\* ------------------------------------------------------- program constants
EXIT_SUCCESS == 0
EXIT_FAILURE == 1
\* Status of a process killed by SIGSEGV (128 + 11).
SIGSEGV_STATUS == 139
SHN_UNDEF == 0
\* errno values left by the failing calls; libelf's error code is abstract.
ENOENT == 2
EIO == 5
ENOMEM == 12
ELF_E_ERROR == 1

\* A program header as main() uses it (GElf_Phdr; p_vaddr and p_flags are
\* carried through untouched and are left out).
Phdr(t, paddr, memsz, filesz, offset, align) ==
    [p_type |-> t, p_paddr |-> paddr, p_memsz |-> memsz,
     p_filesz |-> filesz, p_offset |-> offset, p_align |-> align]

\* A program-header slot gelf_newphdr reserved and nobody filled (zeroed).
NullPhdr == Phdr("PT_NULL", 0, 0, 0, 0, 0)

\* The program headers an input file may hold: two loaded out of address
\* order, one at the address of the empty one, an empty one, one whose end
\* lies beyond the integer width, and one that is not PT_LOAD.  File
\* offsets are the ones of a source container whose payloads do not overlap.
SegPool ==
    { Phdr("PT_LOAD", 2, 2, 1, 1, 1),
      Phdr("PT_LOAD", 1, 3, 2, 2, 2),
      Phdr("PT_LOAD", 0, 1, 1, 5, 1),
      Phdr("PT_LOAD", 0, 0, 0, 0, 1),
      Phdr("PT_LOAD", Mod - 1, 2, 1, 4, 1),
      Phdr("PT_NOTE", 1, 1, 1, 6, 1) }

SeqsUpTo(S, n) == UNION { [1..k -> S] : k \in 0..n }

\* An input table lists each of its segments once.
InputTables ==
    { s \in SeqsUpTo(SegPool, MaxPhdr) :
        \A a, b \in DOMAIN s : a # b => s[a] # s[b] }

\* The -r/--range argument as getopt hands it over: whether it was given,
\* whether it holds a dash, and the two numbers strtoull returns.
RangeArg(given, dash, lo, hi) ==
    [given |-> given, dash |-> dash, min |-> lo, max |-> hi]

RangeArgs ==
    { RangeArg(FALSE, FALSE, 0, 0),
      RangeArg(TRUE, FALSE, 0, 0),
      RangeArg(TRUE, TRUE, 2, 1),
      RangeArg(TRUE, TRUE, 0, 1),
      RangeArg(TRUE, TRUE, 1, 2),
      RangeArg(TRUE, TRUE, 1, 3) }

ElfClasses == { "ELFCLASSNONE", "ELFCLASS32", "ELFCLASS64" }

\* Resources main() acquires: the handles and arrays, and one payload
\* buffer per index of data_buffers.
R(name) == <<name, 0>>
Buf(k) == <<"buffer", k>>
Resources ==
    { R("inputFd"), R("inputElf"), R("phdrs"), R("data_buffers"),
      R("outputFd"), R("outputElf") } \cup { Buf(k) : k \in 1..MaxPhdr }

\* ------------------------------------------------------------ pure helpers
\* uint64_t segmentEnd = ph.p_paddr + ph.p_memsz - 1;
SegmentEnd(ph) == (ph.p_paddr + ph.p_memsz + Mod - 1) % Mod

\* if (ph.p_paddr < minLma || segmentEnd > maxLma) continue;
OutsideRange(ph, lo, hi) == ph.p_paddr < lo \/ SegmentEnd(ph) > hi

\* The body of the selection loop: TRUE when phdrs[loadCount++] = ph runs.
KeepSegment(ph, allowZero, ranged, lo, hi) ==
    /\ ph.p_type = "PT_LOAD"
    /\ ~(ph.p_filesz = 0 /\ ~allowZero)
    /\ ~(ranged /\ OutsideRange(ph, lo, hi))

comparePhdr_descending(pa, pb) ==
    IF pa.p_paddr < pb.p_paddr THEN 1
    ELSE IF pa.p_paddr > pb.p_paddr THEN -1 ELSE 0

comparePhdr(pa, pb) ==
    IF pa.p_paddr < pb.p_paddr THEN -1
    ELSE IF pa.p_paddr > pb.p_paddr THEN 1 ELSE 0

\* qsort(base, n, size, cmp): libc's contract is any rearrangement of the
\* array that cmp accepts as ordered; elements cmp calls equal may land in
\* any relative order.
Qsort(s) ==
    { p \in { [k \in 1..Len(s) |-> s[f[k]]] : f \in Permutations(1..Len(s)) } :
        \A a, b \in 1..Len(p) : a < b => comparePhdr(p[a], p[b]) <= 0 }

NoLoadSegments_never(n) == n < 0

\* if (loadCount == 0)
NoLoadSegments(n) == n = 0

\* int exit_status = (errno != 0 || elf_errno() != 0) ? EXIT_FAILURE : EXIT_SUCCESS;
ExitStatus(e, ee) == IF e # 0 \/ ee # 0 THEN EXIT_FAILURE ELSE EXIT_SUCCESS

ShortReadTarget_continue == "newscn"

\* Where the short-read branch of the payload loop goes (goto cleanup_error).
ShortReadTarget == "cleanup"

\* ------------------------------------------------------------------ state
VARIABLES
    pc,               \* position in main()
    noSht, hasRange, allowZeroSizeSeg, minLma, maxLma,   \* parsed options
    errno, elfErr,    \* errno and libelf's last error
    elfClass,         \* gelf_getclass(inputElf)
    inPhdrs,          \* the input file's program-header table
    phdrs,            \* phdrs[0..loadCount-1]
    keptIdx,          \* history: input index of every phdrs[loadCount++] = ph
    i,                \* loop index (1-based: next entry to handle)
    outEhdr,          \* the output descriptor's ELF header
    outPht,           \* the output descriptor's program-header table
    outScns,          \* the output descriptor's sections, in creation order
    commitResults,    \* what each elf_update(outputElf, ELF_C_WRITE) returned
    log,              \* unconditional messages written to stderr
    exit_status,      \* <<>> while running, <<status>> once the process ended
    acq, rel,         \* resources acquired; how often each was released
    faults            \* failing calls / short reads so far

opts == <<noSht, hasRange, allowZeroSizeSeg, minLma, maxLma>>
errs == <<errno, elfErr>>
inp == <<elfClass, inPhdrs>>
sel == <<phdrs, keptIdx>>
out == <<outEhdr, outPht, outScns, commitResults>>
res == <<acq, rel>>
vars == <<pc, opts, errs, inp, sel, i, out, log, exit_status, res, faults>>

loadCount == Len(phdrs)

NoEhdr == [present |-> FALSE, e_phnum |-> 0, e_shoff |-> 0,
           e_shnum |-> 0, e_shstrndx |-> SHN_UNDEF]

Init ==
    /\ pc = "parse"
    /\ noSht = FALSE /\ hasRange = FALSE /\ allowZeroSizeSeg = FALSE
    /\ minLma = 0 /\ maxLma = 0
    /\ errno = 0 /\ elfErr = 0
    /\ elfClass = "ELFCLASSNONE"
    /\ inPhdrs = <<>>
    /\ phdrs = <<>> /\ keptIdx = <<>>
    /\ i = 1
    /\ outEhdr = NoEhdr
    /\ outPht = <<>>
    /\ outScns = <<>>
    /\ commitResults = <<>>
    /\ log = <<>>
    /\ exit_status = <<>>
    /\ acq = {} /\ rel = [r \in Resources |-> 0]
    /\ faults = 0

\* ---------------------------------------------------------- action helpers
\* A call fails: one more injected fault.
Fault == faults < MaxFaults /\ faults' = faults + 1
NoFault == faults' = faults

\* close / elf_end / free of the resources in S; free(NULL) does nothing.
Released(S) == [r \in Resources |-> IF r \in S THEN rel[r] + 1 ELSE rel[r]]
NonNull(S) == S \cap acq

\* return status;
Return(status) == pc' = "done" /\ exit_status' = <<status>>

Say(msg) == log' = Append(log, msg)

\* ------------------------------------------------- options and input file
\* The getopt_long loop and the positional-argument check.  `badUsage` is
\* an unknown option or a wrong number of positional arguments.
ParseArgs ==
    /\ pc = "parse"
    /\ \E n, z, badUsage \in BOOLEAN, r \in RangeArgs :
        /\ noSht' = n
        /\ allowZeroSizeSeg' = z
        /\ hasRange' = r.given
        /\ minLma' = r.min
        /\ maxLma' = r.max
        /\ IF r.given /\ ~r.dash
             THEN Say("Invalid range format") /\ Return(EXIT_FAILURE)
           ELSE IF r.given /\ r.min >= r.max
             THEN Say("Invalid range") /\ Return(EXIT_FAILURE)
           ELSE IF badUsage
             THEN Say("Usage") /\ Return(EXIT_FAILURE)
           ELSE pc' = "elf_version" /\ UNCHANGED <<log, exit_status>>
    /\ UNCHANGED <<errs, inp, sel, i, out, res, faults>>

\* elf_version(EV_CURRENT)
ElfVersion ==
    /\ pc = "elf_version"
    /\ \/ /\ NoFault
          /\ pc' = "open_in"
          /\ UNCHANGED <<errs, log, exit_status>>
       \/ /\ Fault
          /\ elfErr' = ELF_E_ERROR
          /\ Say("libelf init failed")
          /\ Return(EXIT_FAILURE)
          /\ UNCHANGED errno
    /\ UNCHANGED <<opts, inp, sel, i, out, res>>

\* open(inputFile, O_RDONLY)
OpenInput ==
    /\ pc = "open_in"
    /\ \/ /\ NoFault
          /\ acq' = acq \cup {R("inputFd")}
          /\ pc' = "elf_begin_in"
          /\ UNCHANGED <<errs, log, exit_status>>
       \/ /\ Fault
          /\ errno' = ENOENT
          /\ Say("open inputFile")
          /\ Return(EXIT_FAILURE)
          /\ UNCHANGED <<elfErr, acq>>
    /\ UNCHANGED <<opts, inp, sel, i, out, rel>>

\* elf_begin(inputFd, ELF_C_READ, NULL)
ElfBeginInput ==
    /\ pc = "elf_begin_in"
    /\ \/ /\ NoFault
          /\ acq' = acq \cup {R("inputElf")}
          /\ pc' = "getclass"
          /\ UNCHANGED <<errs, log, exit_status, rel>>
       \/ /\ Fault
          /\ elfErr' = ELF_E_ERROR
          /\ Say("elf_begin(input)")
          /\ rel' = Released({R("inputFd")})
          /\ Return(EXIT_FAILURE)
          /\ UNCHANGED <<errno, acq>>
    /\ UNCHANGED <<opts, inp, sel, i, out>>

\* gelf_getclass(inputElf): the class is a property of the input file.
GetClass ==
    /\ pc = "getclass"
    /\ \E c \in ElfClasses :
        /\ elfClass' = c
        /\ IF c # "ELFCLASS32" /\ c # "ELFCLASS64"
             THEN /\ Say("Unsupported ELF class")
                  /\ rel' = Released({R("inputElf"), R("inputFd")})
                  /\ Return(EXIT_FAILURE)
             ELSE /\ pc' = "getehdr"
                  /\ UNCHANGED <<log, rel, exit_status>>
    /\ UNCHANGED <<opts, errs, inPhdrs, sel, i, out, acq, faults>>

\* gelf_getehdr(inputElf, &elfHeader)
GetEhdr ==
    /\ pc = "getehdr"
    /\ \/ /\ NoFault
          /\ pc' = "getphdrnum"
          /\ UNCHANGED <<errs, log, exit_status, rel>>
       \/ /\ Fault
          /\ elfErr' = ELF_E_ERROR
          /\ Say("gelf_getehdr")
          /\ rel' = Released({R("inputElf"), R("inputFd")})
          /\ Return(EXIT_FAILURE)
          /\ UNCHANGED errno
    /\ UNCHANGED <<opts, inp, sel, i, out, acq>>

\* elf_getphdrnum(inputElf, &phdrCount): the table is the input file's.
GetPhdrNum ==
    /\ pc = "getphdrnum"
    /\ \/ /\ NoFault
          /\ \E tbl \in InputTables : inPhdrs' = tbl
          /\ pc' = "malloc_phdrs"
          /\ UNCHANGED <<errs, log, exit_status, rel>>
       \/ /\ Fault
          /\ elfErr' = ELF_E_ERROR
          /\ Say("elf_getphdrnum")
          /\ rel' = Released({R("inputElf"), R("inputFd")})
          /\ Return(EXIT_FAILURE)
          /\ UNCHANGED <<errno, inPhdrs>>
    /\ UNCHANGED <<opts, elfClass, sel, i, out, acq>>

\* phdrs = malloc(phdrCount * sizeof(GElf_Phdr)); loadCount = 0.  The result
\* is not tested: a NULL phdrs is carried into the selection loop.
MallocPhdrs ==
    /\ pc = "malloc_phdrs"
    /\ \/ /\ NoFault
          /\ acq' = acq \cup {R("phdrs")}
          /\ UNCHANGED errno
       \/ /\ Fault
          /\ errno' = ENOMEM
          /\ UNCHANGED acq
    /\ i' = 1
    /\ pc' = "select"
    /\ UNCHANGED <<opts, elfErr, inp, sel, out, log, exit_status, rel>>

\* ---------------------------------------------------------------- selection
\* One iteration of the selection loop with gelf_getphdr succeeding.
\* Storing through a NULL phdrs is undefined; the build's outcome is the
\* process dying on SIGSEGV (SelectNullStore).
SelectStep ==
    /\ pc = "select"
    /\ i <= Len(inPhdrs)
    /\ ~(KeepSegment(inPhdrs[i], allowZeroSizeSeg, hasRange, minLma, maxLma)
         /\ R("phdrs") \notin acq)
    /\ IF KeepSegment(inPhdrs[i], allowZeroSizeSeg, hasRange, minLma, maxLma)
         THEN /\ phdrs' = Append(phdrs, inPhdrs[i])
              /\ keptIdx' = Append(keptIdx, i)
         ELSE UNCHANGED sel
    /\ i' = i + 1
    /\ UNCHANGED <<pc, opts, errs, inp, out, log, exit_status, res, faults>>

SelectNullStore ==
    /\ pc = "select"
    /\ i <= Len(inPhdrs)
    /\ KeepSegment(inPhdrs[i], allowZeroSizeSeg, hasRange, minLma, maxLma)
    /\ R("phdrs") \notin acq
    /\ pc' = "crashed"
    /\ exit_status' = <<SIGSEGV_STATUS>>
    /\ UNCHANGED <<opts, errs, inp, sel, i, out, log, res, faults>>

\* if (!gelf_getphdr(inputElf, i, &ph)) continue;
SelectGetPhdrFail ==
    /\ pc = "select"
    /\ i <= Len(inPhdrs)
    /\ Fault
    /\ elfErr' = ELF_E_ERROR
    /\ i' = i + 1
    /\ UNCHANGED <<pc, opts, errno, inp, sel, out, log, exit_status, res>>

\* After the loop: if (loadCount == 0) { ...; return EXIT_FAILURE; }
CheckLoadCount ==
    /\ pc = "select"
    /\ i > Len(inPhdrs)
    /\ IF NoLoadSegments(loadCount)
         THEN /\ Say("No PT_LOAD segments found")
              /\ rel' = Released(NonNull({R("phdrs")})
                                 \cup {R("inputElf"), R("inputFd")})
              /\ Return(EXIT_FAILURE)
         ELSE /\ pc' = "sort"
              /\ UNCHANGED <<log, rel, exit_status>>
    /\ UNCHANGED <<opts, errs, inp, sel, i, out, acq, faults>>

\* qsort(phdrs, loadCount, sizeof(GElf_Phdr), comparePhdr)
SortPhdrs ==
    /\ pc = "sort"
    /\ phdrs' \in Qsort(phdrs)
    /\ pc' = "calloc"
    /\ UNCHANGED <<opts, errs, inp, keptIdx, i, out, log, exit_status, res, faults>>

\* ------------------------------------------------------ output descriptor
\* A libelf call fails: by an injected fault when it could have succeeded,
\* necessarily when what it works on was never created.
CallFails(couldSucceed) == IF couldSucceed THEN Fault ELSE NoFault

\* data_buffers = calloc(loadCount, sizeof(void*))
CallocBuffers ==
    /\ pc = "calloc"
    /\ \/ /\ NoFault
          /\ acq' = acq \cup {R("data_buffers")}
          /\ pc' = "open_out"
          /\ UNCHANGED <<errs, log, exit_status, rel>>
       \/ /\ Fault
          /\ errno' = ENOMEM
          /\ Say("calloc data_buffers")
          /\ rel' = Released(NonNull({R("phdrs")})
                             \cup {R("inputElf"), R("inputFd")})
          /\ Return(EXIT_FAILURE)
          /\ UNCHANGED <<elfErr, acq>>
    /\ UNCHANGED <<opts, inp, sel, i, out>>

\* open(outputFile, O_RDWR | O_CREAT | O_TRUNC, 0644): this is where the
\* destination file is created or truncated.  The failure branch frees
\* phdrs and the input handles and returns; it does not free data_buffers.
OpenOutput ==
    /\ pc = "open_out"
    /\ \/ /\ NoFault
          /\ acq' = acq \cup {R("outputFd")}
          /\ pc' = "elf_begin_out"
          /\ UNCHANGED <<errs, log, exit_status, rel>>
       \/ /\ Fault
          /\ errno' = ENOENT
          /\ Say("open outputFile")
          /\ rel' = Released(NonNull({R("phdrs")})
                             \cup {R("inputElf"), R("inputFd")})
          /\ Return(EXIT_FAILURE)
          /\ UNCHANGED <<elfErr, acq>>
    /\ UNCHANGED <<opts, inp, sel, i, out>>

\* elf_begin(outputFd, ELF_C_WRITE, NULL); the failure branch closes
\* outputFd, frees phdrs and the input handles, and returns.
ElfBeginOutput ==
    /\ pc = "elf_begin_out"
    /\ \/ /\ NoFault
          /\ acq' = acq \cup {R("outputElf")}
          /\ pc' = "newehdr"
          /\ UNCHANGED <<errs, log, exit_status, rel>>
       \/ /\ Fault
          /\ elfErr' = ELF_E_ERROR
          /\ Say("elf_begin(output)")
          /\ rel' = Released(NonNull({R("phdrs")})
                             \cup {R("outputFd"), R("inputElf"), R("inputFd")})
          /\ Return(EXIT_FAILURE)
          /\ UNCHANGED <<errno, acq>>
    /\ UNCHANGED <<opts, inp, sel, i, out>>

\* gelf_newehdr(outputElf, elfClass); a failure is printed and ignored.
NewEhdr ==
    /\ pc = "newehdr"
    /\ \/ /\ NoFault
          /\ outEhdr' = [NoEhdr EXCEPT !.present = TRUE]
          /\ UNCHANGED <<errs, log>>
       \/ /\ Fault
          /\ elfErr' = ELF_E_ERROR
          /\ Say("gelf_newehdr")
          /\ UNCHANGED <<errno, outEhdr>>
    /\ pc' = "update_ehdr"
    /\ UNCHANGED <<opts, inp, sel, i, outPht, outScns, commitResults,
                   exit_status, res>>

\* elfHeader.e_phnum = loadCount; e_shoff = 0; e_shnum = 0;
\* e_shstrndx = SHN_UNDEF; gelf_update_ehdr(outputElf, &elfHeader);
\* a failure is printed and ignored.
UpdateEhdr ==
    /\ pc = "update_ehdr"
    /\ \/ /\ outEhdr.present
          /\ NoFault
          /\ outEhdr' = [present |-> TRUE, e_phnum |-> loadCount,
                         e_shoff |-> 0, e_shnum |-> 0,
                         e_shstrndx |-> SHN_UNDEF]
          /\ UNCHANGED <<errs, log>>
       \/ /\ CallFails(outEhdr.present)
          /\ elfErr' = ELF_E_ERROR
          /\ Say("gelf_update_ehdr")
          /\ UNCHANGED <<errno, outEhdr>>
    /\ pc' = "newphdr"
    /\ UNCHANGED <<opts, inp, sel, i, outPht, outScns, commitResults,
                   exit_status, res>>

\* gelf_newphdr(outputElf, loadCount): loadCount zeroed slots; a failure is
\* printed and ignored.
NewPhdr ==
    /\ pc = "newphdr"
    /\ \/ /\ outEhdr.present
          /\ NoFault
          /\ outPht' = [k \in 1..loadCount |-> NullPhdr]
          /\ UNCHANGED <<errs, log>>
       \/ /\ CallFails(outEhdr.present)
          /\ elfErr' = ELF_E_ERROR
          /\ Say("gelf_newphdr")
          /\ UNCHANGED <<errno, outPht>>
    /\ i' = 1
    /\ pc' = "update_phdr"
    /\ UNCHANGED <<opts, inp, sel, outEhdr, outScns, commitResults,
                   exit_status, res>>

\* gelf_update_phdr(outputElf, i, &phdrs[i]): the sorted source header is
\* stored as it is, p_offset included; a failure is printed and ignored.
UpdatePhdr ==
    /\ pc = "update_phdr"
    /\ i <= loadCount
    /\ \/ /\ i <= Len(outPht)
          /\ NoFault
          /\ outPht' = [outPht EXCEPT ![i] = phdrs[i]]
          /\ UNCHANGED <<errs, log>>
       \/ /\ CallFails(i <= Len(outPht))
          /\ elfErr' = ELF_E_ERROR
          /\ Say("gelf_update_phdr")
          /\ UNCHANGED <<errno, outPht>>
    /\ i' = i + 1
    /\ UNCHANGED <<pc, opts, inp, sel, outEhdr, outScns, commitResults,
                   exit_status, res>>

\* elf_update(outputElf, ELF_C_WRITE) lays the descriptor out and writes it.
\* It returns the image size, or -1; libelf's layout sets e_shnum to the
\* number of sections the descriptor holds.
ElfUpdateResults == { -1, 1 }
ElfUpdateLayout(h, scns) == [h EXCEPT !.e_shnum = Len(scns)]

FlushHeaderPht_skipped ==
    /\ pc = "update_phdr"
    /\ i > loadCount
    /\ i' = 1
    /\ pc' = "payload"
    /\ UNCHANGED <<opts, errs, inp, sel, out, log, exit_status, res, faults>>

\* "Flush header + PHT to the output file": the first elf_update, after the
\* program-header loop; a negative result is printed and ignored.
FlushHeaderPht ==
    /\ pc = "update_phdr"
    /\ i > loadCount
    /\ \E r \in ElfUpdateResults :
        /\ commitResults' = Append(commitResults, r)
        /\ IF r < 0
             THEN /\ CallFails(outEhdr.present)
                  /\ elfErr' = ELF_E_ERROR
                  /\ Say("elf_update header+PHT")
                  /\ UNCHANGED outEhdr
             ELSE /\ outEhdr.present
                  /\ NoFault
                  /\ outEhdr' = ElfUpdateLayout(outEhdr, outScns)
                  /\ UNCHANGED <<elfErr, log>>
    /\ i' = 1
    /\ pc' = "payload"
    /\ UNCHANGED <<opts, errno, inp, sel, outPht, outScns, exit_status, res>>

\* ---------------------------------------------------------------- payload
\* A section as elf_newscn creates it (header zeroed: SHT_NULL, no flags),
\* with the data descriptors attached to it.
Scn(data) == [sh_type |-> "SHT_NULL", sh_flags |-> 0, data |-> data]

\* The Elf_Data main() fills for segment k of the sorted array.
SegData(k, seg) ==
    [d_align |-> seg.p_align, d_buf |-> k, d_size |-> seg.p_filesz,
     d_type |-> "ELF_T_BYTE", d_off |-> 0]

\* if (seg.p_filesz == 0) continue;
PayloadSkipZero ==
    /\ pc = "payload"
    /\ i <= loadCount
    /\ phdrs[i].p_filesz = 0
    /\ i' = i + 1
    /\ UNCHANGED <<pc, opts, errs, inp, sel, out, log, exit_status, res, faults>>

\* buffer = malloc(seg.p_filesz); data_buffers[i] = buffer;
PayloadMalloc ==
    /\ pc = "payload"
    /\ i <= loadCount
    /\ phdrs[i].p_filesz # 0
    /\ \/ /\ NoFault
          /\ acq' = acq \cup {Buf(i)}
          /\ pc' = "pread"
          /\ UNCHANGED <<errno, log>>
       \/ /\ Fault
          /\ errno' = ENOMEM
          /\ Say("malloc segment buffer")
          /\ pc' = "cleanup"
          /\ UNCHANGED acq
    /\ UNCHANGED <<opts, elfErr, inp, sel, i, out, exit_status, rel>>

\* bytes_read = pread(inputFd, buffer, seg.p_filesz, seg.p_offset) and the
\* two tests on it.  A short read leaves errno and elf_errno as they were.
PreadSegment ==
    /\ pc = "pread"
    /\ \E bytes_read \in -1..phdrs[i].p_filesz :
        IF bytes_read < 0
          THEN /\ Fault
               /\ errno' = EIO
               /\ Say("pread segment data")
               /\ pc' = "cleanup"
          ELSE IF bytes_read # phdrs[i].p_filesz
          THEN /\ Fault
               /\ log' = log \o <<"Warning: short read",
                                  "Error: Short read encountered. Aborting.">>
               /\ pc' = ShortReadTarget
               /\ UNCHANGED errno
          ELSE /\ NoFault
               /\ pc' = "newscn"
               /\ UNCHANGED <<errno, log>>
    /\ UNCHANGED <<opts, elfErr, inp, sel, i, out, exit_status, res>>

\* scn = elf_newscn(outputElf); data = elf_newdata(scn); fill data.
NewSection ==
    /\ pc = "newscn"
    /\ \/ /\ NoFault
          /\ outScns' = Append(outScns, Scn(<<SegData(i, phdrs[i])>>))
          /\ i' = i + 1
          /\ pc' = "payload"
          /\ UNCHANGED <<elfErr, log>>
       \/ /\ Fault
          /\ elfErr' = ELF_E_ERROR
          /\ Say("elf_newscn")
          /\ pc' = "cleanup"
          /\ UNCHANGED <<outScns, i>>
       \/ /\ Fault
          /\ elfErr' = ELF_E_ERROR
          /\ outScns' = Append(outScns, Scn(<<>>))
          /\ Say("elf_newdata")
          /\ pc' = "cleanup"
          /\ UNCHANGED i
    /\ UNCHANGED <<opts, errno, inp, sel, outEhdr, outPht, commitResults,
                   exit_status, res>>

\* ---------------------------------------------- section table and commit
\* After the payload loop: gelf_getehdr(outputElf, &elfHeader)
GetEhdrOut ==
    /\ pc = "payload"
    /\ i > loadCount
    /\ \/ /\ outEhdr.present
          /\ NoFault
          /\ pc' = "sht"
          /\ UNCHANGED <<elfErr, log>>
       \/ /\ CallFails(outEhdr.present)
          /\ elfErr' = ELF_E_ERROR
          /\ Say("gelf_getehdr(out pre-final)")
          /\ pc' = "cleanup"
    /\ UNCHANGED <<opts, errno, inp, sel, i, out, exit_status, res>>

\* if (noSht): e_shnum = 0; e_shoff = 0; e_shstrndx = SHN_UNDEF;
\* gelf_update_ehdr(outputElf, &elfHeader).  No section is removed.
ConfigureNoSht ==
    /\ pc = "sht"
    /\ noSht
    /\ \/ /\ NoFault
          /\ outEhdr' = [outEhdr EXCEPT !.e_shnum = 0, !.e_shoff = 0,
                                        !.e_shstrndx = SHN_UNDEF]
          /\ pc' = "elf_update_final"
          /\ UNCHANGED <<elfErr, log>>
       \/ /\ Fault
          /\ elfErr' = ELF_E_ERROR
          /\ Say("gelf_update_ehdr (noSht)")
          /\ pc' = "cleanup"
          /\ UNCHANGED outEhdr
    /\ UNCHANGED <<opts, errno, inp, sel, i, outPht, outScns, commitResults,
                   exit_status, res>>

\* else: nullScn = elf_newscn(outputElf)
AddNullSection ==
    /\ pc = "sht"
    /\ ~noSht
    /\ \/ /\ NoFault
          /\ outScns' = Append(outScns, Scn(<<>>))
          /\ pc' = "elf_update_final"
          /\ UNCHANGED <<elfErr, log>>
       \/ /\ Fault
          /\ elfErr' = ELF_E_ERROR
          /\ Say("elf_newscn(NULL)")
          /\ pc' = "cleanup"
          /\ UNCHANGED outScns
    /\ UNCHANGED <<opts, errno, inp, sel, i, outEhdr, outPht, commitResults,
                   exit_status, res>>

\* final_size = elf_update(outputElf, ELF_C_WRITE); if (final_size < 0) goto
\* cleanup_error; the label follows either way.
FinalUpdate ==
    /\ pc = "elf_update_final"
    /\ \E final_size \in ElfUpdateResults :
        /\ commitResults' = Append(commitResults, final_size)
        /\ IF final_size < 0
             THEN /\ Fault
                  /\ elfErr' = ELF_E_ERROR
                  /\ Say("elf_update final")
                  /\ UNCHANGED outEhdr
             ELSE /\ NoFault
                  /\ outEhdr' = ElfUpdateLayout(outEhdr, outScns)
                  /\ UNCHANGED <<elfErr, log>>
    /\ pc' = "cleanup"
    /\ UNCHANGED <<opts, errno, inp, sel, i, outPht, outScns, exit_status, res>>

\* cleanup_error: the exit status is computed from errno and elf_errno()
\* (which clears libelf's error when it is called), then everything is
\* released: elf_end(outputElf), close(outputFd), every data_buffers[i],
\* data_buffers, phdrs, elf_end(inputElf), close(inputFd).
Cleanup ==
    /\ pc = "cleanup"
    /\ exit_status' = <<ExitStatus(errno, elfErr)>>
    /\ elfErr' = IF errno # 0 THEN elfErr ELSE 0
    /\ rel' = Released({R("outputElf"), R("outputFd"), R("data_buffers"),
                        R("inputElf"), R("inputFd")}
                       \cup NonNull({R("phdrs")} \cup
                                    {Buf(k) : k \in 1..loadCount}))
    /\ pc' = "done"
    /\ UNCHANGED <<opts, errno, inp, sel, i, out, log, acq, faults>>

Next ==
    \/ ParseArgs \/ ElfVersion \/ OpenInput \/ ElfBeginInput \/ GetClass
    \/ GetEhdr \/ GetPhdrNum \/ MallocPhdrs
    \/ SelectStep \/ SelectNullStore \/ SelectGetPhdrFail \/ CheckLoadCount
    \/ SortPhdrs \/ CallocBuffers \/ OpenOutput \/ ElfBeginOutput
    \/ NewEhdr \/ UpdateEhdr \/ NewPhdr \/ UpdatePhdr \/ FlushHeaderPht
    \/ PayloadSkipZero \/ PayloadMalloc \/ PreadSegment \/ NewSection
    \/ GetEhdrOut \/ ConfigureNoSht \/ AddNullSection \/ FinalUpdate
    \/ Cleanup

Spec == Init /\ [][Next]_vars

\* ================================================================ properties
Range(s) == { s[k] : k \in DOMAIN s }
Count(s, x) == Cardinality({ k \in DOMAIN s : s[k] = x })
\* Two sequences hold the same elements the same number of times.
SameBag(a, b) ==
    /\ Len(a) = Len(b)
    /\ \A k \in DOMAIN a : Count(a, a[k]) = Count(b, a[k])

Logged(msg) == \E k \in DOMAIN log : log[k] = msg

\* The accepted segments in input order, from the history of the loop.
AcceptedInInputOrder == [k \in 1..Len(keptIdx) |-> inPhdrs[keptIdx[k]]]

\* Full containment as the specification states it, over the integers.
Contained(ph) ==
    ph.p_paddr >= minLma /\ ph.p_paddr + ph.p_memsz - 1 <= maxLma

\* The selection policy as the specification states it.
SpecAccepts(ph) ==
    /\ ph.p_type = "PT_LOAD"
    /\ (ph.p_filesz # 0 \/ allowZeroSizeSeg)
    /\ (hasRange => Contained(ph))

AcceptedBySpec == SelectSeq(inPhdrs, SpecAccepts)

\* Input indices the selection loop has been through.
Processed ==
    IF pc = "select" THEN 1..(i - 1)
    ELSE IF pc = "malloc_phdrs" THEN {}
    ELSE 1..Len(inPhdrs)

BeforeSelectionEnds ==
    { "parse", "elf_version", "open_in", "elf_begin_in", "getclass",
      "getehdr", "getphdrnum", "malloc_phdrs", "select", "crashed" }
BeforeFlush ==
    { "parse", "elf_version", "open_in", "elf_begin_in", "getclass",
      "getehdr", "getphdrnum", "malloc_phdrs", "select", "crashed", "sort",
      "calloc", "open_out", "elf_begin_out", "newehdr", "update_ehdr",
      "newphdr", "update_phdr" }
PayloadPhase == { "payload", "pread", "newscn", "sht", "elf_update_final" }

\* Every call of the run succeeded and the final elf_update returned a size.
ValidImageProduced ==
    /\ faults = 0
    /\ Len(commitResults) = 2
    /\ commitResults[2] > 0

SuccessfulRun ==
    pc = "done" /\ exit_status = <<EXIT_SUCCESS>> /\ ValidImageProduced

PayloadCount == Cardinality({ k \in DOMAIN phdrs : phdrs[k].p_filesz # 0 })

\* ------------------------------------------------------------------- C1
\* C1: once the program-header table has been written (first elf_update
\* done), it holds exactly the input segments that are LOAD and pass the
\* active filters -- fileSize # 0 unless admitZeroSize, full containment in
\* [min, max] when a range is given: e_phnum is their number, every entry is
\* LOAD, none is missing, duplicated or extra.  Stated for the runs on which
\* no call failed, the reading most favourable to the code.
C1_PhtExactlyAccepted ==
    (Len(commitResults) >= 1 /\ faults = 0) =>
        /\ outEhdr.e_phnum = Len(AcceptedBySpec)
        /\ SameBag(outPht, AcceptedBySpec)
        /\ \A k \in DOMAIN outPht : outPht[k].p_type = "PT_LOAD"

\* ------------------------------------------------------------------- C2
\* C2: the descriptors are written to the output program-header table in
\* non-decreasing p_paddr order, and the written sequence is a permutation
\* of the accepted set: after qsort the array is ordered by p_paddr and
\* holds exactly the accepted segments, every slot of the output table
\* that was written holds the array's entry of the same index, and on a
\* run without a failed call the table is the array.
C2_EmittedOrderSorted ==
    pc \notin {"select", "sort", "crashed"} =>
        /\ \A k \in 1..(Len(phdrs) - 1) :
               phdrs[k].p_paddr <= phdrs[k + 1].p_paddr
        /\ SameBag(phdrs, AcceptedInInputOrder)
        /\ \A k \in DOMAIN outPht : outPht[k] \in {NullPhdr, phdrs[k]}
        /\ (Len(commitResults) >= 1 /\ faults = 0) => outPht = phdrs

\* Witness of C2: a successful run whose accepted segments arrived out of
\* address order and were all written.
C2_Witness ==
    /\ SuccessfulRun
    /\ Len(outPht) >= 2
    /\ outPht = phdrs
    /\ \E k \in 1..(Len(keptIdx) - 1) :
           AcceptedInInputOrder[k].p_paddr > AcceptedInInputOrder[k + 1].p_paddr

\* ------------------------------------------------------------------- C3
\* C3: in the output of a successful run, consecutive program-header
\* entries satisfy offset[k] + size[k] <= offset[k+1], and offset[k+1] is a
\* multiple of align[k+1] whenever align[k+1] > 1.
C3_OutputOffsetsPacked ==
    SuccessfulRun =>
        \A k \in 1..(Len(outPht) - 1) :
            /\ outPht[k].p_offset + outPht[k].p_filesz <= outPht[k + 1].p_offset
            /\ outPht[k + 1].p_align > 1 =>
                   outPht[k + 1].p_offset % outPht[k + 1].p_align = 0

\* ------------------------------------------------------------------- C4
\* C4: with a range filter active, a LOAD segment that passes the
\* zero-size policy is accepted exactly when it is fully contained:
\* p_paddr >= min and p_paddr + p_memsz - 1 <= max, for every value of the
\* fields, p_memsz = 0 and sums beyond the integer width included.
C4_RangeFullyContained ==
    (hasRange /\ faults = 0) =>
        \A k \in Processed :
            (inPhdrs[k].p_type = "PT_LOAD"
             /\ (inPhdrs[k].p_filesz # 0 \/ allowZeroSizeSeg)) =>
                (k \in Range(keptIdx) <=> Contained(inPhdrs[k]))

\* ------------------------------------------------------------------- C5
\* C5: the process exits 0 exactly when a valid output image was produced
\* (every step succeeded and the final commit returned a size); every run
\* that ends through an error, an aborting short read included, exits
\* non-zero.
C5_ExitZeroIffValidImage ==
    pc = "done" => (exit_status = <<EXIT_SUCCESS>> <=> ValidImageProduced)

\* ------------------------------------------------------------------- C6
\* C6: if selection accepts no segment, the run fails with a non-zero exit
\* status and the destination is never opened, created, truncated or
\* written: once the selection loop is over with loadCount = 0 the run is
\* finished with EXIT_FAILURE and no output handle, header or commit exists.
C6_EmptySelectionNoOutput ==
    (pc \notin BeforeSelectionEnds /\ loadCount = 0) =>
        /\ pc = "done"
        /\ exit_status = <<EXIT_FAILURE>>
        /\ R("outputFd") \notin acq
        /\ R("outputElf") \notin acq
        /\ ~outEhdr.present
        /\ commitResults = <<>>

\* Witness of C6: the input holds LOAD segments, the filters reject all of
\* them, and the run has ended on "No PT_LOAD segments found".
C6_Witness ==
    /\ pc = "done"
    /\ Logged("No PT_LOAD segments found")
    /\ \E k \in DOMAIN inPhdrs : inPhdrs[k].p_type = "PT_LOAD"
    /\ loadCount = 0
    /\ faults = 0

\* ------------------------------------------------------------------- C7
\* C7: after a successful run the output has one of two section-table
\* shapes: with --nosht no section and section count / string-table index
\* cleared; without it exactly one section, empty and null, and section
\* count 1 -- whatever the number of segments that carry payload.
C7_SectionTableShape ==
    SuccessfulRun =>
        IF noSht
          THEN /\ Len(outScns) = 0
               /\ outEhdr.e_shnum = 0
               /\ outEhdr.e_shstrndx = SHN_UNDEF
          ELSE /\ Len(outScns) = 1
               /\ outScns[1] = Scn(<<>>)
               /\ outEhdr.e_shnum = 1

\* ------------------------------------------------------------------- C8
\* C8 as stated: the commit (elf_update) is invoked exactly once on a run
\* that reaches emission, after all header, program-header, payload and
\* section state has been set.
C8_CommitExactlyOnce ==
    /\ Len(commitResults) <= 1
    /\ Len(commitResults) = 1 => pc \in {"cleanup", "done"}

\* C8 as amended: the commit is invoked twice on a run that reaches the end
\* of emission -- once right after the header and program-header table are
\* set and before any payload (a negative result there is only printed),
\* and a final time after all payload and section state has been set; a run
\* that aborts in between has committed once.  A negative result of the
\* final commit ends the run with a non-zero exit status, and nothing is
\* emitted after the final commit.
C8_CommitTwice ==
    /\ pc \in BeforeFlush => Len(commitResults) = 0
    /\ pc \in PayloadPhase => Len(commitResults) = 1
    /\ Len(commitResults) <= 2
    /\ (pc = "done" /\ R("outputElf") \in acq) => Len(commitResults) >= 1
    /\ Len(commitResults) = 2 =>
           /\ pc \in {"cleanup", "done"}
           /\ i = loadCount + 1
           /\ Len(outScns) = PayloadCount + (IF noSht THEN 0 ELSE 1)
    /\ (pc = "done" /\ Len(commitResults) = 2 /\ commitResults[2] < 0) =>
           exit_status = <<EXIT_FAILURE>>

\* Witness of C8: a finished run whose first commit succeeded and whose
\* final commit returned a negative result.
C8_Witness ==
    /\ pc = "done"
    /\ Len(commitResults) = 2
    /\ commitResults[1] > 0
    /\ commitResults[2] < 0
    /\ exit_status = <<EXIT_FAILURE>>

\* ------------------------------------------------------------------- C9
\* C9 as stated: a short read is not fatal; the run goes on with the
\* remaining segments and still reaches the final commit.
C9_ShortReadNonFatal ==
    (pc = "done" /\ Logged("Warning: short read")) => Len(commitResults) = 2

\* C9 as amended: a short read is fatal to emission.  After the warning the
\* run prints an abort message and goes to cleanup: no section is created
\* for that segment or any later one, the final commit is never invoked,
\* and the partly filled buffer is freed once.
C9_ShortReadAborts ==
    Logged("Warning: short read") =>
        /\ Logged("Error: Short read encountered. Aborting.")
        /\ pc \in {"cleanup", "done"}
        /\ Len(commitResults) = 1
        /\ Len(outScns) =
               Cardinality({ k \in 1..(i - 1) : phdrs[k].p_filesz # 0 })
        /\ \A s \in DOMAIN outScns : \A d \in DOMAIN outScns[s].data :
               outScns[s].data[d].d_buf < i
        /\ Buf(i) \in acq
        /\ pc = "done" => rel[Buf(i)] = 1

\* Witness of C9: a finished run that met a short read while a later
\* segment with payload was still to be handled.
C9_Witness ==
    /\ pc = "done"
    /\ Logged("Warning: short read")
    /\ \E k \in (i + 1)..loadCount : phdrs[k].p_filesz # 0

\* ------------------------------------------------------------------ C10
\* C10: on every exit path each resource the run acquired is released
\* exactly once before the process returns, and nothing that was never
\* acquired is released.
C10_ReleasedExactlyOnce ==
    pc = "done" =>
        \A r \in Resources : rel[r] = (IF r \in acq THEN 1 ELSE 0)
====
